---- MODULE Spec2Model ----
(***************************************************************************)
(* The dashboard client of vm_scripts/static/script.js: three loaders      *)
(* (room cards, statistics, history) that fetch with a timeout, render the *)
(* response into their panel, and are driven by page-load timers, three    *)
(* fixed-interval timers and an IntersectionObserver.                      *)
(*                                                                         *)
(* Time is in milliseconds.  `now` is the instant of the last timer that   *)
(* became due; events that are not timers (a response, a network error, an *)
(* intersection event) happen somewhere in [now, next timer instant).      *)
(***************************************************************************)
EXTENDS Integers, Sequences, FiniteSets

\* now            the clock, in ms since the script ran
\* reqs           the requests in flight
\* issued         per endpoint, the number of requests sent so far
\* panel          per endpoint, what its element of the page shows
\* historyLoaded  the flag of loadHistory
\* lastUpdate     the time written to the 'Last update' element
\* pending        the page-load timers of loadAllData that have not fired
\* next           per endpoint, the instant its interval timer fires next
\* loadedOnce     history: historyLoaded has been set at least once
\* settled        the number of fetches that settled before their timeout
VARIABLES now, reqs, issued, panel, historyLoaded, lastUpdate, pending, next,
          loadedOnce, settled

vars == <<now, reqs, issued, panel, historyLoaded, lastUpdate, pending, next,
          loadedOnce, settled>>

Kinds == {"latest", "stats", "history"}

(* ----------------------------- bounds ---------------------------------- *)
\* last instant the clock may advance to
MaxTime == 241000
\* fetches that settle before their timeout, over the whole run
MaxSettled == 2
\* requests whose response body is still being read, at one time
MaxSlow == 1
\* timed-out requests whose fetch is still to settle, at one time
MaxLate == 1
\* /api/readings requests sent so far, for an intersection event to send one
MaxHistory == 2
\* last instant at which the history section scrolls into or out of view
MaxScrollMs == 6000
\* entries of a response body
MaxItems == 2

(* ------------------------- program constants --------------------------- *)
LatestTimeoutMs == 3000
StatsTimeoutMs == 3000
HistoryTimeoutMs == 5000
StatsDelayMs == 300
HistoryDelayMs == 1000
LatestIntervalMs == 15000
StatsIntervalMs == 60000
HistoryIntervalMs == 120000
\* README: "Web Dashboard: ... (auto-refresh every 5s)"
DocRefreshMs == 5000

\* a faulty variant of TimeoutMs in which every loader leaves the timeout to the
\* default of fetchWithTimeout
TimeoutMsDefault(k) == HistoryTimeoutMs

\* the timeout each loader passes to fetchWithTimeout
TimeoutMs(k) ==
    CASE k = "latest" -> LatestTimeoutMs
      [] k = "stats" -> StatsTimeoutMs
      [] k = "history" -> HistoryTimeoutMs

IntervalMs(k) ==
    CASE k = "latest" -> LatestIntervalMs
      [] k = "stats" -> StatsIntervalMs
      [] k = "history" -> HistoryIntervalMs

(* --------------------------- JSON values -------------------------------- *)
\* A field of an entry is <<>> when the entry lacks it and <<v>> when it has
\* the value v.
Absent == <<>>
Some(v) == <<v>>
Has(f) == f # Absent
Val(f) == f[1]

\* x || dflt on a string field: undefined and "" are falsy
OrElse(f, dflt) == IF Has(f) /\ Val(f) # "" THEN Val(f) ELSE dflt

\* roomIcons[name] || fallback
RoomIcon(f) ==
    IF ~Has(f) THEN "house"
    ELSE CASE Val(f) = "living_room" -> "sofa"
           [] Val(f) = "kitchen" -> "pan"
           [] Val(f) = "bedroom" -> "bed"
           [] OTHER -> "house"

\* name.replace('_', ' ') on the room names of the model
ReplaceUnderscore(s) ==
    CASE s = "living_room" -> "living room"
      [] OTHER -> s

\* s.toLowerCase() on the status labels of the model
ToLowerCase(s) ==
    CASE s = "NORMAL" -> "normal"
      [] s = "WARNING" -> "warning"
      [] s = "ALERT" -> "alert"
      [] s = "POOR" -> "poor"
      [] OTHER -> s

\* new Date().toLocaleTimeString() at instant t: the time of day to the
\* second, counted from the time of day at which the script ran
ToLocaleTimeString(t) == (t \div 1000) % 86400

\* x.toFixed(1) of a number given in hundredths: the number of tenths,
\* rounded half up
ToFixed1(x) == (x + 5) \div 10

(* --------------------------- rendering ---------------------------------- *)
\* Rendering one entry gives <<row>>, or <<>> when the template throws a
\* TypeError (a method called on a field the entry lacks).  Fields that are
\* only interpolated as text (device_id, the measurements, timestamp) cannot
\* throw and are left out of the rows.

\* a faulty variant of RenderCard that interpolates humidity_status as it is
RenderCardRawHumidity(room) ==
    IF ~Has(room.room) \/ ~Has(room.temp_status) \/ ~Has(room.air_status)
    THEN <<>>
    ELSE << [ icon |-> RoomIcon(room.room),
              title |-> ReplaceUnderscore(Val(room.room)),
              tempAlert |-> (Val(room.temp_status) # "NORMAL"),
              tempClass |-> ToLowerCase(Val(room.temp_status)),
              tempLabel |-> Val(room.temp_status),
              humLabel |-> IF Has(room.humidity_status)
                           THEN Val(room.humidity_status) ELSE "undefined",
              airAlert |-> (Val(room.air_status) = "POOR"),
              airClass |-> ToLowerCase(Val(room.air_status)),
              airLabel |-> Val(room.air_status) ] >>

\* one room card of loadRoomCards
RenderCard(room) ==
    IF ~Has(room.room) \/ ~Has(room.temp_status) \/ ~Has(room.air_status)
    THEN <<>>
    ELSE << [ icon |-> RoomIcon(room.room),
              title |-> ReplaceUnderscore(Val(room.room)),
              tempAlert |-> (Val(room.temp_status) # "NORMAL"),
              tempClass |-> ToLowerCase(Val(room.temp_status)),
              tempLabel |-> Val(room.temp_status),
              humLabel |-> OrElse(room.humidity_status, "NORMAL"),
              airAlert |-> (Val(room.air_status) = "POOR"),
              airClass |-> ToLowerCase(Val(room.air_status)),
              airLabel |-> Val(room.air_status) ] >>

\* one stat card of loadStats
RenderStat(stat) ==
    IF ~Has(stat.room) \/ ~Has(stat.avg_temp) \/ ~Has(stat.avg_humidity)
    THEN <<>>
    ELSE << [ icon |-> RoomIcon(stat.room),
              title |-> ReplaceUnderscore(Val(stat.room)),
              avgTemp |-> ToFixed1(Val(stat.avg_temp)),
              avgHumidity |-> ToFixed1(Val(stat.avg_humidity)) ] >>

\* one table row of loadHistory
RenderRow(row) ==
    IF ~Has(row.room) \/ ~Has(row.temp_status) \/ ~Has(row.air_status)
    THEN <<>>
    ELSE << [ icon |-> RoomIcon(row.room),
              title |-> ReplaceUnderscore(Val(row.room)),
              tempAlert |-> (Val(row.temp_status) # "NORMAL"),
              tempClass |-> ToLowerCase(Val(row.temp_status)),
              tempLabel |-> Val(row.temp_status),
              airAlert |-> (Val(row.air_status) = "POOR"),
              airClass |-> ToLowerCase(Val(row.air_status)),
              airLabel |-> Val(row.air_status) ] >>

RenderEntry(k, e) ==
    CASE k = "latest" -> RenderCard(e)
      [] k = "stats" -> RenderStat(e)
      [] k = "history" -> RenderRow(e)

\* a faulty variant of RenderLoop that writes each row to the page as it is
\* built, so that the rows before a throwing entry stay
RECURSIVE RenderLoopPartial(_, _, _, _)
RenderLoopPartial(k, data, i, html) ==
    IF i > Len(data) THEN <<html>>
    ELSE LET r == RenderEntry(k, data[i])
         IN IF r = <<>> THEN <<html>>
            ELSE RenderLoopPartial(k, data, i + 1, html \o r)

\* the for loop of a loader over data[0..length-1]: <<html>> with the rows
\* appended in order, or <<>> when an entry throws
RECURSIVE RenderLoop(_, _, _, _)
RenderLoop(k, data, i, html) ==
    IF i > Len(data) THEN <<html>>
    ELSE LET r == RenderEntry(k, data[i])
         IN IF r = <<>> THEN <<>>
            ELSE RenderLoop(k, data, i + 1, html \o r)

(* ----------------------------- panels ----------------------------------- *)
\* What a panel shows: the placeholder of the page ("loading"), the
\* 'No ... available' message ("empty"), the 'Failed to load ...' message
\* ("failed"), or the html built from a response ("html": its rows, none for
\* the empty string).  req is the number of the request that wrote it.
Loading == [msg |-> "loading", rows |-> <<>>, req |-> 0]
Shown(m, rows, id) == [msg |-> m, rows |-> rows, req |-> id]

\* A response: its HTTP status (ok) and its body.  A body is text that is not
\* JSON ("nojson"), the JSON null, a JSON object that is no array ("object"),
\* or a JSON array of entries.
Body(t, items) == [t |-> t, items |-> items]
NoResp == [ok |-> FALSE, body |-> Body("none", <<>>)]

\* The .then(res => res.json()).then(data => ...).catch(...) chain of a
\* loader on a response: what the panel shows afterwards, and whether the
\* line after the rendering (historyLoaded = true) was reached.
ThenChain(k, resp) ==
    LET b == resp.body IN
    CASE b.t = "nojson" -> [msg |-> "failed", rows |-> <<>>, done |-> FALSE]
      [] b.t = "null" -> [msg |-> "failed", rows |-> <<>>, done |-> FALSE]
      [] b.t = "object" -> [msg |-> "html", rows |-> <<>>, done |-> TRUE]
      [] b.t = "array" ->
            IF Len(b.items) = 0
            THEN [msg |-> "empty", rows |-> <<>>, done |-> FALSE]
            ELSE LET h == RenderLoop(k, b.items, 1, <<>>)
                 IN IF h = <<>>
                    THEN [msg |-> "failed", rows |-> <<>>, done |-> FALSE]
                    ELSE [msg |-> "html", rows |-> h[1], done |-> TRUE]

(* ---------------------------- responses --------------------------------- *)
RoomVals == {Absent, Some("living_room")}
TempVals == {Absent, Some("NORMAL"), Some("ALERT")}
HumidityVals == {Absent, Some(""), Some("HIGH")}
AirVals == {Absent, Some("NORMAL"), Some("POOR"), Some("ALERT")}
AvgVals == {Absent, Some(2146)}

Entries(k) ==
    CASE k = "latest" ->
            [room : RoomVals, temp_status : TempVals,
             humidity_status : HumidityVals, air_status : AirVals]
      [] k = "stats" ->
            [room : RoomVals, avg_temp : AvgVals, avg_humidity : AvgVals]
      [] k = "history" ->
            [room : RoomVals, temp_status : TempVals, air_status : AirVals]

Arrays(k) == UNION { [1..n -> Entries(k)] : n \in 0..MaxItems }

AllBodies(k) ==
    {Body("nojson", <<>>), Body("null", <<>>), Body("object", <<>>)}
        \cup { Body("array", a) : a \in Arrays(k) }

\* every response of the model, for the rendering of one response
AllResponses(k) == [ok : BOOLEAN, body : AllBodies(k)]

\* an entry as the API documents it
GoodEntry(k) ==
    CASE k = "latest" ->
            [room |-> Some("living_room"), temp_status |-> Some("ALERT"),
             humidity_status |-> Absent, air_status |-> Some("NORMAL")]
      [] k = "stats" ->
            [room |-> Some("living_room"), avg_temp |-> Some(2146),
             avg_humidity |-> Some(2146)]
      [] k = "history" ->
            [room |-> Some("living_room"), temp_status |-> Some("ALERT"),
             air_status |-> Some("NORMAL")]

\* the responses the server gives while the page runs
SampleResponses(k) ==
    [ok : BOOLEAN,
     body : {Body("nojson", <<>>), Body("object", <<>>), Body("array", <<>>),
             Body("array", <<GoodEntry(k)>>)}]

(* ----------------------------- requests --------------------------------- *)
\* A request in flight: its endpoint, its number among the requests to that
\* endpoint, the instant it was sent, and where its promise chain stands:
\*   "fetching"  fetch() and the timeout timer are both pending
\*   "body"      fetch() resolved first with resp; res.json() is pending
\*   "timedout"  the timer rejected the race first; fetch() is still pending
Req(k, id, sent, phase, resp) ==
    [kind |-> k, id |-> id, sent |-> sent, phase |-> phase, resp |-> resp]

Deadline(r) == r.sent + TimeoutMs(r.kind)

InPhase(p) == { r \in reqs : r.phase = p }

\* fetchWithTimeout(url, timeout) as called by the loader of k
FetchWithTimeout(k) ==
    /\ reqs' = reqs \cup {Req(k, issued[k] + 1, now, "fetching", NoResp)}
    /\ issued' = [issued EXCEPT ![k] = @ + 1]

\* loadRoomCards / loadStats: the call itself only sends the request
LoadRoomCards == FetchWithTimeout("latest")
LoadStats == FetchWithTimeout("stats")

\* loadHistory, called with historyLoaded having the value hl
LoadHistory(hl) ==
    IF hl THEN UNCHANGED <<reqs, issued>>
    ELSE FetchWithTimeout("history")

(* ------------------------------- Init ----------------------------------- *)
\* The state after the script has run: loadAllData() has sent the first
\* /api/latest request, armed the two page-load timers and written the
\* 'Last update' time; the observer and the three interval timers are set.
Init ==
    /\ now = 0
    /\ reqs = {Req("latest", 1, 0, "fetching", NoResp)}
    /\ issued = [k \in Kinds |-> IF k = "latest" THEN 1 ELSE 0]
    /\ panel = [k \in Kinds |-> Loading]
    /\ historyLoaded = FALSE
    /\ lastUpdate = 0
    /\ pending = {"stats", "history"}
    /\ next = [k \in Kinds |-> IntervalMs(k)]
    /\ loadedOnce = FALSE
    /\ settled = 0

(* ------------------------------ timers ---------------------------------- *)
DelayMs(k) == IF k = "stats" THEN StatsDelayMs ELSE HistoryDelayMs

\* the instants at which a pending timer is due
Due ==
    { Deadline(r) : r \in InPhase("fetching") }
        \cup { next[k] : k \in Kinds }
        \cup { DelayMs(k) : k \in pending }

Earliest == CHOOSE t \in Due : \A u \in Due : t <= u

\* Time passes up to the next instant at which a timer is due.  A body that
\* is being read, and a fetch that settles after its timeout, are done by then.
Advance(maxT) ==
    /\ InPhase("body") = {}
    /\ InPhase("timedout") = {}
    /\ now < Earliest
    /\ Earliest <= maxT
    /\ now' = Earliest
    /\ UNCHANGED <<reqs, issued, panel, historyLoaded, lastUpdate, pending,
                   next, loadedOnce, settled>>

\* setTimeout(function() { loadStats(); }, 300) of loadAllData
StatsDelay ==
    /\ "stats" \in pending
    /\ now = StatsDelayMs
    /\ pending' = pending \ {"stats"}
    /\ LoadStats
    /\ UNCHANGED <<now, panel, historyLoaded, lastUpdate, next, loadedOnce, settled>>

\* setTimeout(function() { loadHistory(); }, 1000) of loadAllData
HistoryDelay ==
    /\ "history" \in pending
    /\ now = HistoryDelayMs
    /\ pending' = pending \ {"history"}
    /\ LoadHistory(historyLoaded)
    /\ UNCHANGED <<now, panel, historyLoaded, lastUpdate, next, loadedOnce, settled>>

\* setInterval(updateCriticalData, 15000)
UpdateCriticalData ==
    /\ now = next["latest"]
    /\ next' = [next EXCEPT !["latest"] = @ + LatestIntervalMs]
    /\ LoadRoomCards
    /\ lastUpdate' = now
    /\ UNCHANGED <<now, panel, historyLoaded, pending, loadedOnce, settled>>

\* setInterval(loadStats, 60000)
StatsTick ==
    /\ now = next["stats"]
    /\ next' = [next EXCEPT !["stats"] = @ + StatsIntervalMs]
    /\ LoadStats
    /\ UNCHANGED <<now, panel, historyLoaded, lastUpdate, pending, loadedOnce, settled>>

\* a faulty variant of HistoryRefresh that reloads whether or not history is loaded
HistoryRefreshAlways ==
    /\ historyLoaded' = FALSE
    /\ LoadHistory(FALSE)

\* the callback of the 120 s timer
HistoryRefresh ==
    IF historyLoaded
    THEN /\ historyLoaded' = FALSE
         /\ LoadHistory(FALSE)
    ELSE UNCHANGED <<historyLoaded, reqs, issued>>

\* setInterval(function() { ... }, 120000)
HistoryTick ==
    /\ now = next["history"]
    /\ next' = [next EXCEPT !["history"] = @ + HistoryIntervalMs]
    /\ HistoryRefresh
    /\ UNCHANGED <<now, panel, lastUpdate, pending, loadedOnce, settled>>

\* The IntersectionObserver callback, with the one entry of the observed
\* history section.
Intersect ==
    /\ issued["history"] < MaxHistory
    /\ now <= MaxScrollMs
    /\ \E isIntersecting \in BOOLEAN :
          IF isIntersecting /\ ~historyLoaded
          THEN LoadHistory(historyLoaded)
          ELSE UNCHANGED <<reqs, issued>>
    /\ UNCHANGED <<now, panel, historyLoaded, lastUpdate, pending, next,
                   loadedOnce, settled>>

(* ------------------------- promise chains ------------------------------- *)
\* a faulty variant of Catch that writes every failure message to room-cards
CatchIntoRoomCards(k, id) ==
    panel' = [panel EXCEPT !["latest"] = Shown("failed", <<>>, id)]

\* the .catch handler of the loader of k, for its request number id
Catch(k, id) ==
    panel' = [panel EXCEPT ![k] = Shown("failed", <<>>, id)]

\* fetch() resolves before the timer: the race resolves with the response and
\* res.json() starts reading the body.
FetchResolve(r, resp) ==
    /\ r.phase = "fetching"
    /\ now < Deadline(r)
    /\ Cardinality(InPhase("body")) < MaxSlow
    /\ settled < MaxSettled
    /\ settled' = settled + 1
    /\ reqs' = (reqs \ {r}) \cup {Req(r.kind, r.id, r.sent, "body", resp)}
    /\ UNCHANGED <<now, issued, panel, historyLoaded, lastUpdate, pending,
                   next, loadedOnce>>

\* fetch() rejects before the timer (a network error): the chain skips to
\* its catch handler.
FetchReject(r) ==
    /\ r.phase = "fetching"
    /\ now < Deadline(r)
    /\ settled < MaxSettled
    /\ settled' = settled + 1
    /\ reqs' = reqs \ {r}
    /\ Catch(r.kind, r.id)
    /\ UNCHANGED <<now, issued, historyLoaded, lastUpdate, pending, next,
                   loadedOnce>>

\* The timer of fetchWithTimeout fires first: the race rejects with
\* 'Request timeout' and the chain skips to its catch handler.  The fetch
\* stays pending: it settles later (late) or never.
Timeout(r) ==
    /\ r.phase = "fetching"
    /\ now = Deadline(r)
    /\ \E late \in BOOLEAN :
          /\ late => Cardinality(InPhase("timedout")) < MaxLate
          /\ reqs' = IF late
                     THEN (reqs \ {r}) \cup
                              {Req(r.kind, r.id, r.sent, "timedout", NoResp)}
                     ELSE reqs \ {r}
    /\ Catch(r.kind, r.id)
    /\ UNCHANGED <<now, issued, historyLoaded, lastUpdate, pending, next,
                   loadedOnce, settled>>

\* a faulty variant of LateSettle in which the late response is still rendered
LateSettleRenders(r) ==
    /\ r.phase = "timedout"
    /\ reqs' = reqs \ {r}
    /\ \E resp \in SampleResponses(r.kind) :
          LET o == ThenChain(r.kind, resp)
          IN /\ panel' = [panel EXCEPT ![r.kind] = Shown(o.msg, o.rows, r.id)]
             /\ historyLoaded' = (historyLoaded \/ (r.kind = "history" /\ o.done))
    /\ UNCHANGED <<now, issued, lastUpdate, pending, next, loadedOnce, settled>>

\* fetch() settles after the timer has rejected the race: the race promise is
\* already settled, so no handler of the chain runs.
LateSettle(r) ==
    /\ r.phase = "timedout"
    /\ reqs' = reqs \ {r}
    /\ UNCHANGED <<now, issued, panel, historyLoaded, lastUpdate, pending,
                   next, loadedOnce, settled>>

\* a faulty variant of BodyResolve in which the data handler of loadRoomCards
\* writes the 'Last update' time
BodyResolveStamps(r) ==
    /\ r.phase = "body"
    /\ reqs' = reqs \ {r}
    /\ LET o == ThenChain(r.kind, r.resp)
       IN /\ panel' = [panel EXCEPT ![r.kind] = Shown(o.msg, o.rows, r.id)]
          /\ historyLoaded' = (historyLoaded \/ (r.kind = "history" /\ o.done))
          /\ loadedOnce' = (loadedOnce \/ (r.kind = "history" /\ o.done))
    /\ lastUpdate' = IF r.kind = "latest" THEN now ELSE lastUpdate
    /\ UNCHANGED <<now, issued, pending, next, settled>>

\* res.json() settles: the data handler of the loader runs on the parsed
\* body, or the catch handler when parsing or rendering throws.
BodyResolve(r) ==
    /\ r.phase = "body"
    /\ reqs' = reqs \ {r}
    /\ LET o == ThenChain(r.kind, r.resp)
       IN /\ panel' = [panel EXCEPT ![r.kind] = Shown(o.msg, o.rows, r.id)]
          /\ historyLoaded' = (historyLoaded \/ (r.kind = "history" /\ o.done))
          /\ loadedOnce' = (loadedOnce \/ (r.kind = "history" /\ o.done))
    /\ UNCHANGED <<now, issued, lastUpdate, pending, next, settled>>

(* --------------------------- specification ------------------------------ *)
Next ==
    \/ Advance(MaxTime)
    \/ StatsDelay
    \/ HistoryDelay
    \/ UpdateCriticalData
    \/ StatsTick
    \/ HistoryTick
    \/ Intersect
    \/ \E r \in reqs : \E resp \in SampleResponses(r.kind) : FetchResolve(r, resp)
    \/ \E r \in reqs : FetchReject(r)
    \/ \E r \in reqs : Timeout(r)
    \/ \E r \in reqs : LateSettle(r)
    \/ \E r \in reqs : BodyResolve(r)

Spec == Init /\ [][Next]_vars

(* ------------------- rendering of a single response --------------------- *)
\* The page at the instant the first request to endpoint k has been sent and
\* its fetch has resolved with resp, the earlier requests still pending.
FirstSent(k) ==
    CASE k = "latest" -> 0
      [] k = "stats" -> StatsDelayMs
      [] k = "history" -> HistoryDelayMs

InitRender ==
    \E k \in Kinds : \E resp \in AllResponses(k) :
        /\ now = FirstSent(k)
        /\ reqs = { Req(j, 1, FirstSent(j), "fetching", NoResp) :
                        j \in { i \in Kinds \ {k} : FirstSent(i) < FirstSent(k) } }
                    \cup {Req(k, 1, FirstSent(k), "body", resp)}
        /\ issued = [j \in Kinds |-> IF FirstSent(j) <= FirstSent(k) THEN 1 ELSE 0]
        /\ panel = [j \in Kinds |-> Loading]
        /\ historyLoaded = FALSE
        /\ lastUpdate = 0
        /\ pending = { j \in {"stats", "history"} : FirstSent(j) > FirstSent(k) }
        /\ next = [j \in Kinds |-> IntervalMs(j)]
        /\ loadedOnce = FALSE
        /\ settled = 1

NextRender == \E r \in reqs : BodyResolve(r)

SpecRender == InitRender /\ [][NextRender]_vars

(* ------------------------------ claims ---------------------------------- *)
H == "history"

\* an entry that has every field the API documents as always present
WellFormed(k, e) ==
    CASE k = "latest" -> Has(e.room) /\ Has(e.temp_status) /\ Has(e.air_status)
      [] k = "stats" -> Has(e.room) /\ Has(e.avg_temp) /\ Has(e.avg_humidity)
      [] k = "history" -> Has(e.room) /\ Has(e.temp_status) /\ Has(e.air_status)

WellFormedArray(k, b) ==
    /\ b.t = "array"
    /\ \A i \in 1..Len(b.items) : WellFormed(k, b.items[i])

\* the step ends request r with its timeout
TimesOut(r) == r.phase = "fetching" /\ now = Deadline(r) /\ r \notin reqs'
\* the step ends request r with a network error
NetworkError(r) == r.phase = "fetching" /\ now < Deadline(r) /\ r \notin reqs'
                       /\ settled' # settled /\ InPhase("body")' = InPhase("body")
\* the step ends request r with the reading of its response
Answered(r) == r.phase = "body" /\ r \notin reqs'
\* the step ends request r in one of the failures of C1
Fails(r) ==
    \/ TimesOut(r)
    \/ NetworkError(r)
    \/ Answered(r) /\ (~r.resp.ok \/ ~WellFormedArray(r.kind, r.resp.body))

\* C1 (as stated): whenever a request fails (network error, timeout, HTTP
\* error response, or a body that is no JSON array of well-formed entries),
\* its panel shows the 'Failed to load ...' message.
C1FailureShown ==
    [][\A r \in reqs : Fails(r) => panel'[r.kind].msg = "failed"]_vars

\* C2 (as stated): a successful response that is an empty array shows the
\* 'No ... available' message, and a failed request never shows it.
C2EmptyIsNotFailure ==
    [][\A r \in reqs :
          /\ (Answered(r) /\ r.resp.ok /\ r.resp.body = Body("array", <<>>))
                => panel'[r.kind].msg = "empty"
          /\ Fails(r) => panel'[r.kind].msg # "empty"]_vars

\* C3: a fetch that has not settled within its timeout (3000 ms for
\* /api/latest and /api/stats, 5000 ms for /api/readings) ends as a failure
\* shown in the panel of that request, and the timeout sends no request; a
\* request is sent only by an interval timer, by a page-load timer, or (for
\* the history, while it is not loaded) by an intersection event, in a step
\* that renders no outcome.
C3TimeoutIsFailure ==
    [][/\ \A r \in reqs' :
            r.phase = "fetching" =>
                now' <= r.sent + (CASE r.kind = "latest" -> LatestTimeoutMs
                                    [] r.kind = "stats" -> StatsTimeoutMs
                                    [] r.kind = "history" -> HistoryTimeoutMs)
       /\ \A r \in reqs :
            TimesOut(r) =>
                /\ panel'[r.kind] = Shown("failed", <<>>, r.id)
                /\ issued' = issued
       /\ issued' # issued => panel' = panel /\ reqs \subseteq reqs'
       /\ \A k \in Kinds :
            issued'[k] # issued[k] =>
                \/ next'[k] # next[k]
                \/ k \in pending \ pending'
                \/ k = H /\ ~historyLoaded /\ next' = next /\ pending' = pending]_vars

\* C3 witness: a panel shows the failure of a request at the instant of its
\* timeout, the fetch of that request still pending.
C3Witness ==
    \E r \in InPhase("timedout") :
        /\ now = Deadline(r)
        /\ panel[r.kind] = Shown("failed", <<>>, r.id)

\* C4 (as stated): successive /api/latest requests are sent no more than
\* 5 seconds apart.
C4RefreshEvery5s ==
    [][issued'["latest"] # issued["latest"] => now' - lastUpdate <= DocRefreshMs]_vars

\* C5: the three interval timers fire at multiples of 15 s, 60 s and 120 s,
\* and the end of a request of one kind leaves the panels, the requests and
\* the timers of the other kinds as they are and sends no request.
C5IndependentPolls ==
    [][/\ \A k \in Kinds :
            next'[k] # next[k] =>
                /\ now = next[k]
                /\ next'[k] = next[k] + (CASE k = "latest" -> LatestIntervalMs
                                           [] k = "stats" -> StatsIntervalMs
                                           [] k = "history" -> HistoryIntervalMs)
       /\ \A r \in reqs :
            r \notin reqs' =>
                /\ \A j \in Kinds \ {r.kind} :
                      /\ panel'[j] = panel[j]
                      /\ { q \in reqs' : q.kind = j } = { q \in reqs : q.kind = j }
                /\ issued' = issued
                /\ next' = next
                /\ pending' = pending
                /\ r.kind # H => historyLoaded' = historyLoaded]_vars

\* C5 witness: the statistics panel shows a failure while the room cards
\* show rendered data and the history table its own outcome.
C5Witness ==
    /\ panel["stats"].msg = "failed"
    /\ panel["latest"].msg = "html" /\ Len(panel["latest"].rows) > 0
    /\ panel[H].msg = "empty"

\* C6: for every entry of a /api/latest response whose other fields are
\* present, the humidity label of its card is humidity_status when that is
\* present and non-empty and 'NORMAL' otherwise, and the panel shows the
\* cards, not a failure.
C6HumidityLabel ==
    [][\A r \in reqs :
          (/\ r.kind = "latest"
           /\ Answered(r)
           /\ Len(r.resp.body.items) > 0
           /\ WellFormedArray("latest", r.resp.body))
          => LET items == r.resp.body.items
                 shown == panel'["latest"]
             IN /\ shown.msg = "html"
                /\ Len(shown.rows) = Len(items)
                /\ \A i \in 1..Len(items) :
                      shown.rows[i].humLabel =
                          IF items[i].humidity_status \notin {Absent, Some("")}
                          THEN items[i].humidity_status[1]
                          ELSE "NORMAL"]_vars

\* C6 witness: room cards rendered from a response with one entry that has a
\* humidity_status and one that has none.
C6Witness ==
    /\ panel["latest"].msg = "html"
    /\ \E i, j \in 1..Len(panel["latest"].rows) :
          /\ panel["latest"].rows[i].humLabel = "NORMAL"
          /\ panel["latest"].rows[j].humLabel = "HIGH"

\* C7 (as stated): every 120 s tick after the first successful load of the
\* history sends a new /api/readings request.
C7RefreshEveryTick ==
    [][(next'[H] # next[H] /\ loadedOnce) => issued'[H] = issued[H] + 1]_vars

\* no /api/readings request whose outcome is still to be rendered
NoHistoryInFlight ==
    \A r \in reqs : r.kind = H => r.phase = "timedout"

ShowsNoHistory == panel[H].msg \in {"failed", "empty"}

C9LateResponseIgnored ==
    [][\A r \in reqs :
          (r.phase = "timedout" /\ r \notin reqs') =>
              /\ panel' = panel
              /\ historyLoaded' = historyLoaded
              /\ \A q \in reqs' : ~(q.kind = r.kind /\ q.id = r.id)]_vars

\* C9 witness: the timeout of a /api/readings request has fired and its
\* fetch is still to settle.
C9Witness ==
    \E r \in InPhase("timedout") :
        /\ r.kind = H
        /\ panel[H].msg = "failed"
        /\ ~historyLoaded

\* C10 (as stated): the outcome of an older request never overwrites the
\* outcome of a newer request to the same endpoint.
C10OutcomesInOrder ==
    [][\A k \in Kinds : panel'[k].req >= panel[k].req]_vars

\* C11 (as stated): at most one /api/readings request is in flight at any
\* time.
C11OneHistoryInFlight ==
    Cardinality({ r \in reqs : r.kind = H /\ r.phase \in {"fetching", "body"} }) <= 1

\* C12 (as stated): historyLoaded is true only while the history table shows
\* rows rendered from a non-empty response, never while it shows the loading
\* placeholder, 'No history available' or 'Failed to load history'.
C12LoadedMeansRows ==
    historyLoaded => panel[H].msg = "html" /\ Len(panel[H].rows) > 0

\* C13: a response that is a non-empty array is rendered all or nothing: if
\* every entry has the fields its template dereferences the panel shows one
\* row per entry, and if any entry lacks one the panel shows the failure
\* message and no row of that response.
C13AllOrNothing ==
    [][\A r \in reqs :
          (Answered(r) /\ r.resp.body.t = "array" /\ Len(r.resp.body.items) > 0)
          => LET items == r.resp.body.items
                 shown == panel'[r.kind]
             IN IF \A i \in 1..Len(items) : WellFormed(r.kind, items[i])
                THEN /\ shown.msg = "html"
                     /\ shown.req = r.id
                     /\ Len(shown.rows) = Len(items)
                ELSE shown = Shown("failed", <<>>, r.id)]_vars

\* C13 witness: the statistics panel shows the failure message, and no row,
\* after the response of its request has been handled.
C13Witness ==
    /\ panel["stats"] = Shown("failed", <<>>, 1)
    /\ \A r \in reqs : r.kind # "stats"
    /\ settled = 1

\* C14 (as stated): in the room cards and in the history table the
\* temperature value is highlighted iff temp_status is not 'NORMAL', and the
\* air-quality value is highlighted iff air_status is not 'NORMAL'.
C14AlertIffNotNormal ==
    [][\A r \in reqs :
          (/\ r.kind \in {"latest", H}
           /\ Answered(r)
           /\ Len(r.resp.body.items) > 0
           /\ WellFormedArray(r.kind, r.resp.body))
          => LET items == r.resp.body.items
                 rows == panel'[r.kind].rows
             IN \A i \in 1..Len(items) :
                   /\ rows[i].tempAlert = (items[i].temp_status # Some("NORMAL"))
                   /\ rows[i].airAlert = (items[i].air_status # Some("NORMAL"))]_vars

\* C15: the 'Last update' time is written exactly when a /api/latest request
\* is sent (at page load and on every 15 s tick), with the time of that
\* instant, so every tick shows a later time; no outcome of any request
\* (response, failure or timeout) changes it.
C15LastUpdateOnSend ==
    [][/\ issued'["latest"] # issued["latest"] =>
            /\ next'["latest"] # next["latest"]
            /\ lastUpdate' = now
            /\ lastUpdate' > lastUpdate
            /\ ToLocaleTimeString(lastUpdate') # ToLocaleTimeString(lastUpdate)
       /\ next'["latest"] # next["latest"] => issued'["latest"] # issued["latest"]
       /\ issued'["latest"] = issued["latest"] => lastUpdate' = lastUpdate
       /\ lastUpdate' = next'["latest"] - LatestIntervalMs]_vars

\* C15 witness: two ticks have passed, no fetch has ever settled, every panel
\* shows its failure message, and 'Last update' shows the second tick.
C15Witness ==
    /\ lastUpdate = 2 * LatestIntervalMs
    /\ settled = 0
    /\ \A k \in Kinds : panel[k].msg = "failed"

====
